---- MODULE Spec2Model ----
(***************************************************************************)
(* Model of promised-db: the cursor iteration engine                       *)
(* (CursorIterator.#iterateCursor, iterateKeys, iterateValues) and the     *)
(* transaction wrapper (Database.transaction).  The host engine            *)
(* (IndexedDB) is the environment: its events are the actions that run     *)
(* the handlers the library installs.                                      *)
(***************************************************************************)
EXTENDS Integers, Sequences, FiniteSets, TLC

\* ---------------------------------------------------------------- bounds
MaxKey == 3
MaxPK == 2
MaxOffset == 2
MaxLimit == 2
MaxTxKey == 2
MaxVersion == 3
MaxStoreKey == 2
MaxIndexKey == 2

\* ------------------------------------------------- optional values (x?: T)
\* An optional number is the empty set (undefined) or a singleton {n}.
None == {}

Some(x) == {x}

The(o) == CHOOSE x \in o : TRUE

\* Variant in which negative numbers are falsy as well.
Truthy_PositiveOnly(o) == o # {} /\ The(o) > 0

\* JavaScript truthiness of an optional number: undefined and 0 are falsy.
Truthy(o) == o # {} /\ o # {0}

Min(S) == CHOOSE x \in S : \A y \in S : x <= y

VARIABLES
    \* ---- cursor run (CursorIterator.#iterateCursor)
    source,               \* "store" | "index": what the cursor provider is
    data,                 \* records in the query range: set of <<key, primaryKey>>
    mode,                 \* "none" | "keys" | "values"
    options,              \* CursorIterationOption
    phase,                \* "constructed" | "threw" | "running"
    promise,              \* [state, value] of the promise #iterateCursor returns
    offsetNotApplied,
    fromIndexNotApplied,
    curCount,
    rq,                   \* [state: "none"|"pending"|"done"|"error", target: position]
    cursor,               \* position of rq.result, Len+1 when null, 0 before
    cb,                   \* user callback: "none"|"pending"|"fulfilled"|"rejected"
    delivered,            \* positions handed to the user callback, in order
    hostCalls,            \* number of continue/advance/continuePrimaryKey calls
    uncaught,             \* exceptions no handler of the library caught
    stopAt,               \* number of deliveries when the user first returned true
    txActive,             \* the enclosing host transaction is active
    hostLog,              \* the continue/advance/continuePrimaryKey calls, in order
    capRq,                \* [state, kind]: request of update()/delete() on the current position
    \* ---- Database.transaction
    txPromise,            \* [state, value] of the promise transaction() returns
    actionCompleted,
    result,
    action,               \* "notcalled"|"running"|"waiting"|"fulfilled"|"rejected"
    actionOut,            \* value or error the action settled with
    hostTx,               \* "none"|"active"|"committing"|"committed"|"aborted"
    store,                \* committed content: key -> value
    writes,               \* uncommitted puts of the transaction: key -> value
    didPut,               \* keys the action has put
    trace,                \* library-side effects of the catch handler, in order
    actionAtComplete,     \* state of the action when the complete event fired
    hostTxAtThrow,        \* state of the host transaction when the action rejected
    \* ---- DatabaseDef.open
    dbVersion,            \* version the host has stored, 0 when the database is new
    otherOpen,            \* another connection to the database is open
    openRq,               \* [state, version, old] of the open request
    openPromise,          \* [state, value] of the promise open() returns
    openTrace,            \* what the handlers of open() did, in order
    hostEvents,           \* events the host fired on the open request, in order
    \* ---- ObjectStore / Index handles and dbPromise
    objects,              \* content of the store: primary key -> indexed attribute of the value
    durable,              \* content outside the transaction: at its start, then what it committed
    storeTx,              \* "active" | "committing" | "finished"
    call,                 \* [handle, op, query, value, tx]: the operation called last
    request,              \* the host request of the call and its callback slots
    dbp,                  \* [state, value] of the promise dbPromise made
    opPromise,            \* [state, value] of the promise the operation returned
    opThrew,              \* exception the call threw instead of returning
    lastPut,              \* [key, value] of the last put, until the next write
    \* ---- indexes of the store (createIndex / deleteIndex / tryDeleteIndex)
    indexes,              \* names of the indexes the store has
    txMode,               \* "readwrite" | "versionchange"
    schemaCall            \* [op, name, returned]: the schema operation called last

cursorVars == <<source, data, mode, options, phase, promise, offsetNotApplied,
                fromIndexNotApplied, curCount, rq, cursor, cb, delivered,
                hostCalls, uncaught, stopAt, txActive, hostLog, capRq>>

txVars == <<txPromise, actionCompleted, result, action, actionOut, hostTx,
            store, writes, didPut, trace, actionAtComplete,
            hostTxAtThrow>>

openVars == <<dbVersion, otherOpen, openRq, openPromise, openTrace, hostEvents>>

storeVars == <<objects, durable, storeTx, call, request, dbp, opPromise, opThrew, lastPut>>

schemaVars == <<indexes, txMode, schemaCall>>

vars == <<cursorVars, txVars, openVars, storeVars, schemaVars>>

\* ------------------------------------------------------------ promises
Pending == [state |-> "pending", value |-> "undefined"]

NoPromise == [state |-> "none", value |-> "undefined"]

\* Variant whose resolve() and reject() have no effect.
Settle_NoEffect(p, st, v) == p

\* resolve()/reject() of a promise: only the first call has an effect.
Settle(p, st, v) == IF p.state = "pending" THEN [state |-> st, value |-> v] ELSE p

\* ------------------------------------------------------ host cursor model
Rec(k, p) == [key |-> k, primaryKey |-> p]

Less(a, b) == a.key < b.key \/ (a.key = b.key /\ a.primaryKey < b.primaryKey)

RECURSIVE Ascending(_)
Ascending(S) ==
    IF S = {} THEN <<>>
    ELSE LET m == CHOOSE x \in S : \A y \in S : x = y \/ Less(x, y)
         IN  <<m>> \o Ascending(S \ {m})

Reverse(s) == [i \in 1..Len(s) |-> s[Len(s) + 1 - i]]

\* Variant in which the direction does not reach the cursor request.
Positions_IgnoreDirection(d, direction) == Ascending(d)

\* The records of the range in the order the cursor visits them.
Positions(d, direction) ==
    IF direction = "next" THEN Ascending(d) ELSE Reverse(Ascending(d))

Ok(t) == [ok |-> TRUE, target |-> t, error |-> "none"]

Throw(e) == [ok |-> FALSE, target |-> 0, error |-> e]

\* First position after i that satisfies the seek, Len+1 (null cursor) if none.
SeekAfter(P, i, hit) ==
    LET C == {j \in (i + 1)..Len(P) : hit[j]}
    IN  IF C = {} THEN Len(P) + 1 ELSE Min(C)

\* IDBCursor.continue()
CursorContinue(P, i, active) ==
    IF ~active THEN Throw("TransactionInactiveError") ELSE Ok(i + 1)

\* IDBCursor.continue(key)
CursorContinueKey(P, i, direction, active, key) ==
    IF ~active THEN Throw("TransactionInactiveError")
    ELSE IF direction = "next" /\ key <= P[i].key THEN Throw("DataError")
    ELSE IF direction = "prev" /\ key >= P[i].key THEN Throw("DataError")
    ELSE Ok(SeekAfter(P, i, [j \in 1..Len(P) |->
                IF direction = "next" THEN P[j].key >= key ELSE P[j].key <= key]))

\* IDBCursor.advance(count)
CursorAdvance(P, i, active, count) ==
    IF count = 0 THEN Throw("TypeError")
    ELSE IF ~active THEN Throw("TransactionInactiveError")
    ELSE Ok(IF i + count > Len(P) THEN Len(P) + 1 ELSE i + count)

\* IDBCursor.continuePrimaryKey(key, primaryKey)
CursorContinuePrimaryKey(P, i, direction, active, src, key, pk) ==
    IF ~active THEN Throw("TransactionInactiveError")
    ELSE IF src # "index" THEN Throw("InvalidAccessError")
    ELSE IF direction = "next" /\ ~Less(P[i], Rec(key, pk)) THEN Throw("DataError")
    ELSE IF direction = "prev" /\ ~Less(Rec(key, pk), P[i]) THEN Throw("DataError")
    ELSE Ok(SeekAfter(P, i, [j \in 1..Len(P) |->
                IF direction = "next" THEN ~Less(P[j], Rec(key, pk))
                                      ELSE ~Less(Rec(key, pk), P[j])]))

\* ------------------------------------------------------------ input sets
StoreDataSets == {{Rec(k, k) : k \in S} : S \in SUBSET (1..MaxKey)}

IndexDataSets ==
    UNION {{{Rec(f[p], p) : p \in S} : f \in [S -> 1..MaxPK]} : S \in SUBSET (1..MaxPK)}

OffsetChoices == {None} \cup {Some(n) : n \in (-1)..MaxOffset}

LimitChoices == {None} \cup {Some(n) : n \in (-1)..MaxLimit}

FromChoices ==
    {[key |-> None, primaryKey |-> None]}
    \cup [key : {Some(k) : k \in 0..MaxKey},
          primaryKey : {None} \cup {Some(p) : p \in 0..MaxPK}]

OptionChoices ==
    [from : FromChoices, limit : LimitChoices, offset : OffsetChoices,
     direction : {"next", "prev"}]

NoOptions ==
    [from |-> [key |-> None, primaryKey |-> None], limit |-> None,
     offset |-> None, direction |-> "next"]

\* ------------------------------------------------------- cursor engine
\* A call of the run on the host cursor.
HostCall(name, args) == [call |-> name, args |-> args]

NoCapability == [state |-> "none", kind |-> "none"]

CursorIdle ==
    /\ mode = "none"
    /\ options = NoOptions
    /\ phase = "constructed"
    /\ promise = NoPromise
    /\ offsetNotApplied = FALSE
    /\ fromIndexNotApplied = FALSE
    /\ curCount = 0
    /\ rq = [state |-> "none", target |-> 0]
    /\ cursor = 0
    /\ cb = "none"
    /\ delivered = <<>>
    /\ hostCalls = 0
    /\ uncaught = {}
    /\ stopAt = 0
    /\ txActive = TRUE
    /\ hostLog = <<>>
    /\ capRq = NoCapability

\* #iterateCursor up to the return of the promise: the two validations, the
\* three locals and cursorRequester().  An exception of cursorRequester()
\* inside the promise executor rejects the promise.
IterateCursor(m, opts) ==
    /\ phase = "constructed"
    /\ mode' = m
    /\ options' = opts
    /\ IF Truthy(opts.offset) /\ The(opts.offset) < 1
       THEN /\ phase' = "threw"
            /\ uncaught' = uncaught \cup {"offset must be greater than 0"}
            /\ UNCHANGED <<promise, offsetNotApplied, fromIndexNotApplied, curCount, rq>>
       ELSE IF Truthy(opts.limit) /\ The(opts.limit) < 1
       THEN /\ phase' = "threw"
            /\ uncaught' = uncaught \cup {"limit must be greater than 0"}
            /\ UNCHANGED <<promise, offsetNotApplied, fromIndexNotApplied, curCount, rq>>
       ELSE /\ phase' = "running"
            /\ offsetNotApplied' = Truthy(opts.offset)
            /\ fromIndexNotApplied' = Truthy(opts.from.key)
            /\ curCount' = 0
            /\ IF txActive
               THEN /\ promise' = Pending
                    /\ rq' = [state |-> "pending", target |-> 1]
               ELSE /\ promise' = Settle(Pending, "rejected", "TransactionInactiveError")
                    /\ rq' = rq
            /\ UNCHANGED uncaught
    /\ UNCHANGED <<source, data, cursor, cb, delivered, hostCalls, stopAt, txActive,
                   hostLog, capRq>>
    /\ UNCHANGED <<txVars, openVars, storeVars, schemaVars>>

IterateKeys(opts) == IterateCursor("keys", opts)

IterateValues(opts) == IterateCursor("values", opts)

\* Variant in which the adapter of iterateValues hands the user's result on.
AdapterResult_ValuesReturn(m, userResult) == IF m = "values" THEN userResult ELSE "undefined"

\* What the engine's `action` resolves with, given what the user's callback
\* resolved with: the adapter arrow of iterateKeys/iterateValues awaits the
\* user's callback and has no return statement.
AdapterResult(m, userResult) == "undefined"

\* Variant that never takes the limit branch.
LimitReached_Never(opts, count) == FALSE

\* if (options?.limit && curCount >= options.limit)
LimitReached(opts, count) == Truthy(opts.limit) /\ count >= The(opts.limit)

\* Variant that issues the next continue() together with the callback.
CallbackRunning_Eager(i) == [state |-> "pending", target |-> i + 1]

\* The cursor request while the callback of position i runs: answered, and
\* only the continuation of the callback makes it pending again.
CallbackRunning(i) == [state |-> "done", target |-> i]

\* rq.onsuccess
OnSuccess ==
    /\ phase = "running"
    /\ rq.state = "pending"
    /\ LET P == Positions(data, options.direction)
           i == IF rq.target > Len(P) THEN Len(P) + 1 ELSE rq.target
       IN  /\ cursor' = i
           /\ IF i > Len(P)
              THEN /\ promise' = Settle(promise, "resolved", "undefined")
                   /\ rq' = [state |-> "done", target |-> i]
                   /\ UNCHANGED <<fromIndexNotApplied, offsetNotApplied, curCount,
                                  cb, delivered, hostCalls, uncaught, hostLog, capRq>>
              ELSE IF fromIndexNotApplied
              THEN LET r == IF Truthy(options.from.primaryKey)
                            THEN CursorContinuePrimaryKey(P, i, options.direction, txActive,
                                     source, The(options.from.key), The(options.from.primaryKey))
                            ELSE CursorContinueKey(P, i, options.direction, txActive,
                                     The(options.from.key))
                   IN  /\ hostCalls' = hostCalls + 1
                       /\ hostLog' = Append(hostLog,
                              IF Truthy(options.from.primaryKey)
                              THEN HostCall("continuePrimaryKey",
                                       <<The(options.from.key), The(options.from.primaryKey)>>)
                              ELSE HostCall("continue", <<The(options.from.key)>>))
                       /\ IF r.ok
                          THEN /\ rq' = [state |-> "pending", target |-> r.target]
                               /\ fromIndexNotApplied' = FALSE
                               /\ UNCHANGED uncaught
                          ELSE /\ rq' = [state |-> "done", target |-> i]
                               /\ uncaught' = uncaught \cup {r.error}
                               /\ UNCHANGED fromIndexNotApplied
                       /\ UNCHANGED <<promise, offsetNotApplied, curCount, cb, delivered, capRq>>
              ELSE IF offsetNotApplied
              THEN LET r == CursorAdvance(P, i, txActive, The(options.offset) - 1)
                   IN  /\ hostCalls' = hostCalls + 1
                       /\ hostLog' = Append(hostLog, HostCall("advance", <<The(options.offset) - 1>>))
                       /\ IF r.ok
                          THEN /\ rq' = [state |-> "pending", target |-> r.target]
                               /\ offsetNotApplied' = FALSE
                               /\ UNCHANGED uncaught
                          ELSE /\ rq' = [state |-> "done", target |-> i]
                               /\ uncaught' = uncaught \cup {r.error}
                               /\ UNCHANGED offsetNotApplied
                       /\ UNCHANGED <<promise, fromIndexNotApplied, curCount, cb, delivered, capRq>>
              ELSE /\ curCount' = curCount + 1
                   /\ cb' = "pending"
                   /\ capRq' = NoCapability
                   /\ delivered' = Append(delivered, P[i])
                   /\ rq' = CallbackRunning(i)
                   /\ promise' = IF LimitReached(options, curCount + 1)
                                 THEN Settle(promise, "resolved", "undefined")
                                 ELSE promise
                   /\ UNCHANGED <<fromIndexNotApplied, offsetNotApplied, hostCalls, uncaught,
                                  hostLog>>
    /\ UNCHANGED <<source, data, mode, options, phase, stopAt, txActive>>
    /\ UNCHANGED <<txVars, openVars, storeVars, schemaVars>>

\* rq.onerror
OnError ==
    /\ phase = "running"
    /\ rq.state = "pending"
    /\ promise' = Settle(promise, "rejected", "HostError")
    /\ rq' = [state |-> "error", target |-> rq.target]
    /\ UNCHANGED <<source, data, mode, options, phase, offsetNotApplied,
                   fromIndexNotApplied, curCount, cursor, cb, delivered, hostCalls,
                   uncaught, stopAt, txActive, hostLog, capRq>>
    /\ UNCHANGED <<txVars, openVars, storeVars, schemaVars>>

\* The user's callback fulfils with userResult; the .then((done) => ...)
\* continuation of the engine runs.
CallbackFulfils(userResult) ==
    /\ phase = "running"
    /\ cb = "pending"
    /\ cb' = "fulfilled"
    /\ stopAt' = IF userResult = "true" /\ stopAt = 0 THEN Len(delivered) ELSE stopAt
    /\ LET done == AdapterResult(mode, userResult)
           P == Positions(data, options.direction)
           r == CursorContinue(P, cursor, txActive)
       IN  IF done = "true"
           THEN /\ promise' = Settle(promise, "resolved", "undefined")
                /\ UNCHANGED <<rq, hostCalls, uncaught, hostLog>>
           ELSE /\ hostCalls' = hostCalls + 1
                /\ hostLog' = Append(hostLog, HostCall("continue", <<>>))
                /\ IF r.ok
                   THEN /\ rq' = [state |-> "pending", target |-> r.target]
                        /\ UNCHANGED uncaught
                   ELSE /\ uncaught' = uncaught \cup {r.error}
                        /\ UNCHANGED rq
                /\ UNCHANGED promise
    /\ UNCHANGED <<source, data, mode, options, phase, offsetNotApplied,
                   fromIndexNotApplied, curCount, cursor, delivered, txActive, capRq>>
    /\ UNCHANGED <<txVars, openVars, storeVars, schemaVars>>

\* The user's callback rejects: action(cursor).then(...) has no rejection
\* handler, so nothing of the run is touched.
CallbackRejects ==
    /\ phase = "running"
    /\ cb = "pending"
    /\ cb' = "rejected"
    /\ uncaught' = uncaught \cup {"CallbackError"}
    /\ UNCHANGED <<source, data, mode, options, phase, promise, offsetNotApplied,
                   fromIndexNotApplied, curCount, rq, cursor, delivered, hostCalls,
                   stopAt, txActive, hostLog, capRq>>
    /\ UNCHANGED <<txVars, openVars, storeVars, schemaVars>>

\* The host commits the enclosing transaction once no request is pending:
\* before the run is started, or while the user's callback waits on
\* something that is not a store operation.
AutoCommit ==
    /\ txActive
    /\ phase = "constructed" \/ (phase = "running" /\ cb = "pending")
    /\ txActive' = FALSE
    /\ UNCHANGED <<source, data, mode, options, phase, promise, offsetNotApplied,
                   fromIndexNotApplied, curCount, rq, cursor, cb, delivered,
                   hostCalls, uncaught, stopAt, hostLog, capRq>>
    /\ UNCHANGED <<txVars, openVars, storeVars, schemaVars>>

TxIdle ==
    /\ txPromise = NoPromise
    /\ actionCompleted = FALSE
    /\ result = "undefined"
    /\ action = "notcalled"
    /\ actionOut = "undefined"
    /\ hostTx = "none"
    /\ store = [k \in 1..MaxTxKey |-> "absent"]
    /\ writes = [k \in 1..MaxTxKey |-> "none"]
    /\ didPut = {}
    /\ trace = <<>>
    /\ actionAtComplete = "none"
    /\ hostTxAtThrow = "none"

\* ---------------------------------------------------- results of requests
\* What a request or a promise carries: a kind, values and keys.
Res(kind, vals, keys) == [kind |-> kind, vals |-> vals, keys |-> keys]

Undefined == Res("undefined", <<>>, <<>>)

Err(name) == Res(name, <<>>, <<>>)

NoRequest ==
    [state |-> "none", method |-> "none", result |-> Undefined, error |-> Undefined,
     onsuccess |-> {}, onerror |-> {}]

NoCall == [handle |-> "none", op |-> "none", query |-> None, value |-> None, tx |-> "none"]

OpenIdle ==
    /\ dbVersion = 0
    /\ otherOpen = FALSE
    /\ openRq = [state |-> "none", version |-> 0, old |-> 0]
    /\ openPromise = NoPromise
    /\ openTrace = <<>>
    /\ hostEvents = <<>>

StoreIdle ==
    /\ objects = <<>>
    /\ durable = <<>>
    /\ storeTx = "active"
    /\ call = NoCall
    /\ request = NoRequest
    /\ dbp = [state |-> "none", value |-> Undefined]
    /\ opPromise = [state |-> "none", value |-> Undefined]
    /\ opThrew = "none"
    /\ lastPut = None

NoSchemaCall == [op |-> "none", name |-> "none", host |-> "none", returned |-> "none"]

SchemaIdle ==
    /\ indexes = {}
    /\ txMode = "readwrite"
    /\ schemaCall = NoSchemaCall

CursorInit ==
    /\ \/ source = "store" /\ data \in StoreDataSets
       \/ source = "index" /\ data \in IndexDataSets
    /\ CursorIdle
    /\ TxIdle
    /\ OpenIdle
    /\ StoreIdle
    /\ SchemaIdle

CursorNext ==
    \/ \E opts \in OptionChoices : IterateKeys(opts)
    \/ \E opts \in OptionChoices : IterateValues(opts)
    \/ OnSuccess
    \/ OnError
    \/ \E u \in {"true", "undefined"} : CallbackFulfils(u)
    \/ CallbackRejects
    \/ AutoCommit

CursorSpec == CursorInit /\ [][CursorNext]_vars

\* ------------------------------------------------- Database.transaction
MismatchError == "Transaction completed before action function completed"

NoWrites == [k \in 1..MaxTxKey |-> "none"]

Results == {"r1", "r2", "undefined"}

\* Database.transaction up to the return of the promise: the host
\* transaction is created and the action is called.  An exception of
\* db.transaction() inside the promise executor rejects the promise.
Transaction(scopeOk) ==
    /\ txPromise.state = "none"
    /\ IF scopeOk
       THEN /\ txPromise' = Pending
            /\ hostTx' = "active"
            /\ action' = "running"
       ELSE /\ txPromise' = Settle(Pending, "rejected", "NotFoundError")
            /\ UNCHANGED <<hostTx, action>>
    /\ actionCompleted' = FALSE
    /\ UNCHANGED <<result, actionOut, store, writes, didPut, trace,
                   actionAtComplete, hostTxAtThrow>>
    /\ UNCHANGED <<cursorVars, openVars, storeVars, schemaVars>>

\* ObjectStore.put inside the action, awaited; the host accepts it only
\* while the transaction is active.
Put(k) ==
    /\ action = "running"
    /\ hostTx = "active"
    /\ writes' = [writes EXCEPT ![k] = "new"]
    /\ didPut' = didPut \cup {k}
    /\ UNCHANGED <<txPromise, actionCompleted, result, action, actionOut, hostTx,
                   store, trace, actionAtComplete, hostTxAtThrow>>
    /\ UNCHANGED <<cursorVars, openVars, storeVars, schemaVars>>

\* The action awaits something that is not a store operation.
ActionWaits ==
    /\ action = "running"
    /\ action' = "waiting"
    /\ UNCHANGED <<txPromise, actionCompleted, result, actionOut, hostTx, store,
                   writes, didPut, trace, actionAtComplete, hostTxAtThrow>>
    /\ UNCHANGED <<cursorVars, openVars, storeVars, schemaVars>>

ActionResumes ==
    /\ action = "waiting"
    /\ action' = "running"
    /\ UNCHANGED <<txPromise, actionCompleted, result, actionOut, hostTx, store,
                   writes, didPut, trace, actionAtComplete, hostTxAtThrow>>
    /\ UNCHANGED <<cursorVars, openVars, storeVars, schemaVars>>

\* Transaction.abort() called by the action on a live transaction.
Abort ==
    /\ action = "running"
    /\ hostTx = "active"
    /\ hostTx' = "aborted"
    /\ writes' = NoWrites
    /\ UNCHANGED <<txPromise, actionCompleted, result, action, actionOut, store,
                   didPut, trace, actionAtComplete, hostTxAtThrow>>
    /\ UNCHANGED <<cursorVars, openVars, storeVars, schemaVars>>

\* Transaction.commit() called by the action on a live transaction.
Commit ==
    /\ action = "running"
    /\ hostTx = "active"
    /\ hostTx' = "committing"
    /\ UNCHANGED <<txPromise, actionCompleted, result, action, actionOut, store,
                   writes, didPut, trace, actionAtComplete, hostTxAtThrow>>
    /\ UNCHANGED <<cursorVars, openVars, storeVars, schemaVars>>

\* Variant that resolves as soon as the action has fulfilled.
OnActionFulfilled_Resolves(out) ==
    /\ actionCompleted' = TRUE
    /\ result' = out
    /\ txPromise' = Settle(txPromise, "resolved", out)

\* .then((out) => { actionCompleted = true; result = out })
OnActionFulfilled(out) ==
    /\ actionCompleted' = TRUE
    /\ result' = out
    /\ UNCHANGED txPromise

ActionFulfils(out) ==
    /\ action = "running"
    /\ action' = "fulfilled"
    /\ actionOut' = out
    /\ OnActionFulfilled(out)
    /\ UNCHANGED <<hostTx, store, writes, didPut, trace,
                   actionAtComplete, hostTxAtThrow>>
    /\ UNCHANGED <<cursorVars, openVars, storeVars, schemaVars>>

\* Variant of the catch handler that only rejects, without the abort.
OnActionRejected_NoAbort(e) ==
    /\ txPromise' = Settle(txPromise, "rejected", e)
    /\ trace' = Append(trace, "reject")
    /\ UNCHANGED <<hostTx, writes>>

\* .catch((e) => { transaction.abort(); reject(e) }): IDBTransaction.abort()
\* throws InvalidStateError once the transaction is committing or finished,
\* and then reject(e) is not reached.
OnActionRejected(e) ==
    IF hostTx = "active"
    THEN /\ hostTx' = "aborted"
         /\ writes' = NoWrites
         /\ txPromise' = Settle(txPromise, "rejected", e)
         /\ trace' = trace \o <<"abort", "reject">>
    ELSE /\ trace' = trace \o <<"abort", "InvalidStateError">>
         /\ UNCHANGED <<hostTx, writes, txPromise>>

ActionRejects(e) ==
    /\ action = "running"
    /\ action' = "rejected"
    /\ actionOut' = e
    /\ hostTxAtThrow' = hostTx
    /\ OnActionRejected(e)
    /\ UNCHANGED <<actionCompleted, result, store, didPut, actionAtComplete>>
    /\ UNCHANGED <<cursorVars, openVars, storeVars, schemaVars>>

\* The host starts committing a transaction that has no pending request and
\* whose action is not running store operations.
HostAutoCommit ==
    /\ hostTx = "active"
    /\ action \in {"waiting", "fulfilled", "rejected"}
    /\ hostTx' = "committing"
    /\ UNCHANGED <<txPromise, actionCompleted, result, action, actionOut, store,
                   writes, didPut, trace, actionAtComplete, hostTxAtThrow>>
    /\ UNCHANGED <<cursorVars, openVars, storeVars, schemaVars>>

\* Variants of the complete handler, as a slip in its guard would leave it.
OnComplete_Unguarded == txPromise' = Settle(txPromise, "resolved", result)

OnComplete_Inverted ==
    txPromise' = IF actionCompleted
                 THEN Settle(txPromise, "rejected", MismatchError)
                 ELSE Settle(txPromise, "resolved", result)

\* transaction.oncomplete
OnComplete ==
    txPromise' = IF ~actionCompleted
                 THEN Settle(txPromise, "rejected", MismatchError)
                 ELSE Settle(txPromise, "resolved", result)

\* The host has committed: the writes are in the store and the complete
\* event fires.
HostComplete ==
    /\ hostTx = "committing"
    /\ hostTx' = "committed"
    /\ store' = [k \in 1..MaxTxKey |-> IF writes[k] = "none" THEN store[k] ELSE writes[k]]
    /\ writes' = NoWrites
    /\ actionAtComplete' = action
    /\ OnComplete
    /\ UNCHANGED <<actionCompleted, result, action, actionOut, didPut, trace,
                   hostTxAtThrow>>
    /\ UNCHANGED <<cursorVars, openVars, storeVars, schemaVars>>

\* The host aborts the transaction on its own (a failed request, a failed
\* commit): the abort event fires, for which the library installs no handler.
HostAbort ==
    /\ hostTx \in {"active", "committing"}
    /\ hostTx' = "aborted"
    /\ writes' = NoWrites
    /\ UNCHANGED <<txPromise, actionCompleted, result, action, actionOut, store,
                   didPut, trace, actionAtComplete, hostTxAtThrow>>
    /\ UNCHANGED <<cursorVars, openVars, storeVars, schemaVars>>

TxInit ==
    /\ source = "store"
    /\ data = {}
    /\ CursorIdle
    /\ txPromise = NoPromise
    /\ actionCompleted = FALSE
    /\ result = "undefined"
    /\ action = "notcalled"
    /\ actionOut = "undefined"
    /\ hostTx = "none"
    /\ store \in [1..MaxTxKey -> {"absent", "old"}]
    /\ writes = NoWrites
    /\ didPut = {}
    /\ trace = <<>>
    /\ actionAtComplete = "none"
    /\ hostTxAtThrow = "none"
    /\ OpenIdle
    /\ StoreIdle
    /\ SchemaIdle

TxNext ==
    \/ \E scopeOk \in BOOLEAN : Transaction(scopeOk)
    \/ \E k \in 1..MaxTxKey : Put(k)
    \/ ActionWaits
    \/ ActionResumes
    \/ Abort
    \/ Commit
    \/ \E out \in Results : ActionFulfils(out)
    \/ \E e \in {"e1", "e2"} : ActionRejects(e)
    \/ HostAutoCommit
    \/ HostComplete
    \/ HostAbort

TxSpec == TxInit /\ [][TxNext]_vars

\* ------------------------------------------------------- DatabaseDef.open
Event(type, old, new) == [type |-> type, old |-> old, new |-> new]

Did(what, old, new) == [what |-> what, old |-> old, new |-> new]

\* DatabaseDef.open up to the return of the promise: the request is made and
\* the four handlers are installed.  indexedDB.open refuses version 0 with a
\* TypeError, which inside the promise executor rejects the promise.
Open(version) ==
    /\ openRq.state = "none"
    /\ IF version = 0
       THEN /\ openPromise' = Settle(Pending, "rejected", "TypeError")
            /\ openRq' = [state |-> "refused", version |-> version, old |-> dbVersion]
       ELSE /\ openPromise' = Pending
            /\ openRq' = [state |-> "pending", version |-> version, old |-> dbVersion]
    /\ UNCHANGED <<dbVersion, otherOpen, openTrace, hostEvents>>
    /\ UNCHANGED <<cursorVars, txVars, storeVars, schemaVars>>

\* Variant without a blocked handler, as in the releases before 3.1.2.
OnBlocked_Missing ==
    /\ openPromise' = openPromise
    /\ openTrace' = openTrace

\* rq.onblocked
OnBlocked ==
    /\ openPromise' = Settle(openPromise, "rejected", "UpgradeAttemptBlockedError")
    /\ openTrace' = Append(openTrace, Did("reject", openRq.old, openRq.version))

\* The upgrade needs the other connection to close and it has not: the host
\* fires blocked and goes on waiting.
HostBlocked ==
    /\ openRq.state = "pending"
    /\ dbVersion < openRq.version
    /\ otherOpen
    /\ openRq' = [openRq EXCEPT !.state = "blocked"]
    /\ hostEvents' = Append(hostEvents, Event("blocked", dbVersion, openRq.version))
    /\ OnBlocked
    /\ UNCHANGED <<dbVersion, otherOpen>>
    /\ UNCHANGED <<cursorVars, txVars, storeVars, schemaVars>>

\* Database.close on the other connection.
Close ==
    /\ otherOpen
    /\ otherOpen' = FALSE
    /\ UNCHANGED <<dbVersion, openRq, openPromise, openTrace, hostEvents>>
    /\ UNCHANGED <<cursorVars, txVars, storeVars, schemaVars>>

\* Variant that hands the two versions over in the wrong order.
OnUpgradeNeeded_Swapped(oldVersion, newVersion) ==
    openTrace' = Append(openTrace, Did("upgrader", newVersion, oldVersion))

\* rq.onupgradeneeded: upgrader(new Database(rq.result), oldVersion, newVersion)
OnUpgradeNeeded(oldVersion, newVersion) ==
    openTrace' = Append(openTrace, Did("upgrader", oldVersion, newVersion))

\* The stored version is behind and no other connection is open: the host
\* starts the upgrade transaction and fires upgradeneeded.  An exception of
\* the upgrader aborts the upgrade.
HostUpgradeNeeded(upgraderThrows) ==
    /\ openRq.state \in {"pending", "blocked"}
    /\ dbVersion < openRq.version
    /\ ~otherOpen
    /\ openRq' = [state |-> IF upgraderThrows THEN "failing" ELSE "upgrading",
                  version |-> openRq.version, old |-> dbVersion]
    /\ dbVersion' = openRq.version
    /\ hostEvents' = Append(hostEvents, Event("upgradeneeded", dbVersion, openRq.version))
    /\ OnUpgradeNeeded(dbVersion, openRq.version)
    /\ UNCHANGED <<otherOpen, openPromise>>
    /\ UNCHANGED <<cursorVars, txVars, storeVars, schemaVars>>

\* rq.onsuccess
OnOpenSuccess ==
    /\ openPromise' = Settle(openPromise, "resolved", "Database")
    /\ openTrace' = Append(openTrace, Did("resolve", openRq.old, openRq.version))

\* The connection is open: at once when the stored version is the requested
\* one, after the upgrade transaction otherwise.
HostOpenSuccess ==
    /\ \/ openRq.state = "pending" /\ dbVersion = openRq.version
       \/ openRq.state = "upgrading"
    /\ openRq' = [openRq EXCEPT !.state = "done"]
    /\ hostEvents' = Append(hostEvents, Event("success", openRq.old, openRq.version))
    /\ OnOpenSuccess
    /\ UNCHANGED <<dbVersion, otherOpen>>
    /\ UNCHANGED <<cursorVars, txVars, storeVars, schemaVars>>

\* rq.onerror
OnOpenError(error) ==
    /\ openPromise' = Settle(openPromise, "rejected", error)
    /\ openTrace' = Append(openTrace, Did("reject", openRq.old, openRq.version))

\* The open fails: the stored version is ahead of the requested one
\* (VersionError), or the upgrade transaction aborted (AbortError) and the
\* stored version is what it was.
HostOpenError ==
    /\ \/ openRq.state = "pending" /\ dbVersion > openRq.version
       \/ openRq.state \in {"upgrading", "failing"}
    /\ openRq' = [openRq EXCEPT !.state = "error"]
    /\ dbVersion' = openRq.old
    /\ hostEvents' = Append(hostEvents, Event("error", openRq.old, openRq.version))
    /\ OnOpenError(IF openRq.state = "pending" THEN "VersionError" ELSE "AbortError")
    /\ UNCHANGED otherOpen
    /\ UNCHANGED <<cursorVars, txVars, storeVars, schemaVars>>

OpenInit ==
    /\ source = "store"
    /\ data = {}
    /\ CursorIdle
    /\ TxIdle
    /\ StoreIdle
    /\ SchemaIdle
    /\ dbVersion \in 0..MaxVersion
    /\ otherOpen \in BOOLEAN
    /\ openRq = [state |-> "none", version |-> 0, old |-> 0]
    /\ openPromise = NoPromise
    /\ openTrace = <<>>
    /\ hostEvents = <<>>

OpenNext ==
    \/ \E version \in 0..MaxVersion : Open(version)
    \/ HostBlocked
    \/ Close
    \/ \E upgraderThrows \in BOOLEAN : HostUpgradeNeeded(upgraderThrows)
    \/ HostOpenSuccess
    \/ HostOpenError

OpenSpec == OpenInit /\ [][OpenNext]_vars

\* ------------------------------------------- ObjectStore / Index handles
StoreOps ==
    {"add", "put", "get", "requireGet", "getAll", "getAllPrimaryKeys", "getPrimaryKey",
     "delete", "clear", "count", "index"}

IndexOps == {"get", "requireGet", "getAll", "getAllPrimaryKeys", "count", "getPrimaryKey"}

\* Variant in which put delegates to the host's add.
HostMethod_PutAsAdd(handle, op) ==
    CASE op = "requireGet" -> "get"
      [] op = "getPrimaryKey" -> "getKey"
      [] op = "getAllPrimaryKeys" -> IF handle = "store" THEN "getAllKeys" ELSE "getAll"
      [] op = "put" -> "add"
      [] OTHER -> op

\* The host method each operation of a handle delegates to.
HostMethod(handle, op) ==
    CASE op = "requireGet" -> "get"
      [] op = "getPrimaryKey" -> "getKey"
      [] op = "getAllPrimaryKeys" -> IF handle = "store" THEN "getAllKeys" ELSE "getAll"
      [] OTHER -> op

\* The operations declared async: an exception of the host call inside them
\* is a rejected promise, elsewhere it is thrown to the caller.
Async(handle, op) == op = "requireGet" \/ (handle = "store" /\ op = "getPrimaryKey")

\* Variant in which the host refuses requests only once the transaction is over.
Inactive_OnlyFinished(tx) == tx = "finished"

\* The host refuses a request when the transaction is not active.
Inactive(tx) == tx # "active"

\* ---- the host's side of a request
RECURSIVE KeySeq(_)
\* The primary keys of S in ascending order.
KeySeq(S) == IF S = {} THEN <<>> ELSE <<Min(S)>> \o KeySeq(S \ {Min(S)})

RECURSIVE IndexSeq(_, _)
\* The primary keys of S in the order of the index: index key, then primary key.
IndexSeq(objs, S) ==
    IF S = {} THEN <<>>
    ELSE LET k == CHOOSE x \in S : \A y \in S :
                      objs[x] < objs[y] \/ (objs[x] = objs[y] /\ x <= y)
         IN  <<k>> \o IndexSeq(objs, S \ {k})

\* The primary keys of the records a query matches, in the order of the
\* handle; no query matches every record.
Matching(handle, objs, query) ==
    IF handle = "store"
    THEN KeySeq({k \in DOMAIN objs : query = None \/ k \in query})
    ELSE IndexSeq(objs, {k \in DOMAIN objs : query = None \/ objs[k] \in query})

ValuesOf(objs, ks) == [i \in 1..Len(ks) |-> objs[ks[i]]]

HostResult(handle, method, objs, query) ==
    LET ks == Matching(handle, objs, query)
    IN  CASE method = "get" -> IF ks = <<>> THEN Undefined ELSE Res("value", <<objs[ks[1]]>>, <<>>)
          [] method = "getKey" -> IF ks = <<>> THEN Undefined ELSE Res("key", <<>>, <<ks[1]>>)
          [] method = "getAll" -> Res("values", ValuesOf(objs, ks), <<>>)
          [] method = "getAllKeys" -> Res("keys", <<>>, ks)
          [] method = "count" -> Res("count", <<>>, <<Len(ks)>>)
          [] method \in {"add", "put"} -> Res("key", <<>>, <<The(query)>>)
          [] OTHER -> Undefined

HostEffect(method, objs, query, value) ==
    CASE method \in {"add", "put"} ->
            [k \in DOMAIN objs \cup query |-> IF k \in query THEN The(value) ELSE objs[k]]
      [] method = "delete" -> [k \in DOMAIN objs \ query |-> objs[k]]
      [] method = "clear" -> <<>>
      [] OTHER -> objs

\* add on a key the store holds is a ConstraintError.
HostRefuses(method, objs, query) == method = "add" /\ query \cap DOMAIN objs # {}

\* ---- dbPromise
\* dbPromise(rq): the two handlers it installs on the request.
DbPromise(req) == [req EXCEPT !.onerror = {"reject(this.error)"},
                            !.onsuccess = {"resolve(this.result)"}]

\* Variant whose success handler resolves without the result.
OnRequestSuccess_NoResult(rqResult) == dbp' = Settle(dbp, "resolved", Undefined)

\* rq.onsuccess = function () { resolve(this.result) }
OnRequestSuccess(rqResult) == dbp' = Settle(dbp, "resolved", rqResult)

\* rq.onerror = function () { reject(this.error) }
OnRequestError(error) == dbp' = Settle(dbp, "rejected", error)

\* Variant without the check of the result.
RequireGet_Unchecked(p) == p

\* requireGet after its await: the result when there is one, NoResultError
\* otherwise; a rejection of the awaited promise is its own rejection.
RequireGet(p) ==
    IF p.state = "resolved" /\ p.value = Undefined
    THEN [state |-> "rejected", value |-> Err("NoResultError")]
    ELSE p

\* What the operation's own promise is, given the promise dbPromise made.
Returned(op, p) == IF op = "requireGet" THEN RequireGet(p) ELSE p

\* ---- operations
\* A call of an operation of a handle, up to its return.  index() makes no
\* request: the host binds the index unless the transaction is finished.
Call(handle, op, query, value) ==
    /\ request.state # "pending"
    /\ call' = [handle |-> handle, op |-> op, query |-> query, value |-> value, tx |-> storeTx]
    /\ IF HostMethod(handle, op) = "index"
       THEN /\ opThrew' = IF storeTx = "finished" THEN "InvalidStateError" ELSE "none"
            /\ request' = NoRequest
            /\ dbp' = [state |-> "none", value |-> Undefined]
            /\ opPromise' = [state |-> "none", value |-> Undefined]
       ELSE IF Inactive(storeTx)
       THEN /\ request' = NoRequest
            /\ dbp' = [state |-> "none", value |-> Undefined]
            /\ IF Async(handle, op)
               THEN /\ opPromise' = [state |-> "rejected", value |-> Err("TransactionInactiveError")]
                    /\ opThrew' = "none"
               ELSE /\ opPromise' = [state |-> "none", value |-> Undefined]
                    /\ opThrew' = "TransactionInactiveError"
       ELSE /\ request' = DbPromise([NoRequest EXCEPT !.state = "pending",
                                                      !.method = HostMethod(handle, op)])
            /\ dbp' = [state |-> "pending", value |-> Undefined]
            /\ opPromise' = [state |-> "pending", value |-> Undefined]
            /\ opThrew' = "none"
    /\ lastPut' = IF handle = "store" /\ op = "get" THEN lastPut ELSE None
    /\ UNCHANGED <<objects, durable, storeTx>>
    /\ UNCHANGED <<cursorVars, txVars, openVars, schemaVars>>

\* The host carries the request out and fires success; the continuation of
\* an async operation runs before the next event.
HostRequestSuccess ==
    /\ request.state = "pending"
    /\ ~HostRefuses(request.method, objects, call.query)
    /\ request' = [request EXCEPT !.state = "success",
                      !.result = HostResult(call.handle, request.method, objects, call.query)]
    /\ objects' = HostEffect(request.method, objects, call.query, call.value)
    /\ OnRequestSuccess(request'.result)
    /\ opPromise' = Returned(call.op, dbp')
    /\ lastPut' = IF call.handle = "store" /\ call.op = "put"
                  THEN Some([key |-> The(call.query), value |-> The(call.value)])
                  ELSE lastPut
    /\ UNCHANGED <<durable, storeTx, call, opThrew>>
    /\ UNCHANGED <<cursorVars, txVars, openVars, schemaVars>>

\* The host refuses the request and fires error; nothing prevents the
\* default of the event, so the transaction aborts and its writes are undone.
HostRequestError ==
    /\ request.state = "pending"
    /\ HostRefuses(request.method, objects, call.query)
    /\ request' = [request EXCEPT !.state = "error", !.error = Err("ConstraintError")]
    /\ OnRequestError(request'.error)
    /\ opPromise' = Returned(call.op, dbp')
    /\ storeTx' = "finished"
    /\ objects' = durable
    /\ UNCHANGED <<durable, call, opThrew, lastPut>>
    /\ UNCHANGED <<cursorVars, txVars, openVars, schemaVars>>

\* No request is pending and the action waits on something else: the host
\* starts committing the transaction.
GoesIdle ==
    /\ storeTx = "active"
    /\ request.state # "pending"
    /\ storeTx' = "committing"
    /\ durable' = objects
    /\ UNCHANGED <<objects, call, request, dbp, opPromise, opThrew, lastPut>>
    /\ UNCHANGED <<cursorVars, txVars, openVars, schemaVars>>

Committed ==
    /\ storeTx = "committing"
    /\ storeTx' = "finished"
    /\ UNCHANGED <<objects, durable, call, request, dbp, opPromise, opThrew, lastPut>>
    /\ UNCHANGED <<cursorVars, txVars, openVars, schemaVars>>

\* ---- inputs
StoreContents == UNION {[S -> 1..MaxIndexKey] : S \in SUBSET (1..MaxStoreKey)}

Arg(handle, op, query, value) == [handle |-> handle, op |-> op, query |-> query, value |-> value]

Keys(handle) == IF handle = "store" THEN 1..MaxStoreKey ELSE 1..MaxIndexKey

CallChoices ==
    {Arg("store", op, Some(k), Some(v)) :
        op \in {"add", "put"}, k \in 1..MaxStoreKey, v \in 1..MaxIndexKey}
    \cup {Arg("store", op, None, None) : op \in {"clear", "index"}}
    \cup {Arg("store", "delete", Some(k), None) : k \in 1..MaxStoreKey}
    \cup UNION {{Arg(handle, op, Some(k), None) :
                    op \in {"get", "requireGet", "getPrimaryKey"}, k \in Keys(handle)}
                : handle \in {"store", "index"}}
    \cup UNION {{Arg(handle, op, query, None) :
                    op \in {"getAll", "getAllPrimaryKeys", "count"},
                    query \in {None} \cup {Some(k) : k \in Keys(handle)}}
                : handle \in {"store", "index"}}

StoreInit ==
    /\ source = "store"
    /\ data = {}
    /\ CursorIdle
    /\ TxIdle
    /\ OpenIdle
    /\ SchemaIdle
    /\ objects \in StoreContents
    /\ durable = objects
    /\ storeTx = "active"
    /\ call = NoCall
    /\ request = NoRequest
    /\ dbp = [state |-> "none", value |-> Undefined]
    /\ opPromise = [state |-> "none", value |-> Undefined]
    /\ opThrew = "none"
    /\ lastPut = None

StoreNext ==
    \/ \E c \in CallChoices : Call(c.handle, c.op, c.query, c.value)
    \/ HostRequestSuccess
    \/ HostRequestError
    \/ GoesIdle
    \/ Committed

StoreSpec == StoreInit /\ [][StoreNext]_vars

\* ------------------------------------------------ indexes of the store
IndexNames == {"a", "b"}

\* IDBObjectStore.deleteIndex(name): "ok" or the exception the host throws.
HostDeleteIndex(name, ixs, tmode, tx) ==
    IF tmode # "versionchange" THEN "InvalidStateError"
    ELSE IF tx # "active" THEN "TransactionInactiveError"
    ELSE IF name \notin ixs THEN "NotFoundError"
    ELSE "ok"

\* IDBObjectStore.createIndex(name, ...): "ok" or the exception the host throws.
HostCreateIndex(name, ixs, tmode, tx) ==
    IF tmode # "versionchange" THEN "InvalidStateError"
    ELSE IF tx # "active" THEN "TransactionInactiveError"
    ELSE IF name \in ixs THEN "ConstraintError"
    ELSE "ok"

SchemaCall(op, name, host, returned) ==
    [op |-> op, name |-> name, host |-> host, returned |-> returned]

\* ObjectStore.createIndex
CreateIndex(name) ==
    LET r == HostCreateIndex(name, indexes, txMode, storeTx)
    IN  /\ indexes' = IF r = "ok" THEN indexes \cup {name} ELSE indexes
        /\ schemaCall' = SchemaCall("createIndex", name, r, IF r = "ok" THEN "Index" ELSE "none")
        /\ opThrew' = IF r = "ok" THEN "none" ELSE r
        /\ UNCHANGED <<txMode, objects, durable, storeTx, call, request, dbp, opPromise, lastPut>>
        /\ UNCHANGED <<cursorVars, txVars, openVars>>

\* ObjectStore.deleteIndex
DeleteIndex(name) ==
    LET r == HostDeleteIndex(name, indexes, txMode, storeTx)
    IN  /\ indexes' = IF r = "ok" THEN indexes \ {name} ELSE indexes
        /\ schemaCall' = SchemaCall("deleteIndex", name, r, IF r = "ok" THEN "undefined" ELSE "none")
        /\ opThrew' = IF r = "ok" THEN "none" ELSE r
        /\ UNCHANGED <<txMode, objects, durable, storeTx, call, request, dbp, opPromise, lastPut>>
        /\ UNCHANGED <<cursorVars, txVars, openVars>>

\* Variant that swallows every exception.
IsNotFound_Any(e) == TRUE

\* e instanceof DOMException && e.name === "NotFoundError"
IsNotFound(e) == e = "NotFoundError"

\* ObjectStore.tryDeleteIndex
TryDeleteIndex(name) ==
    LET r == HostDeleteIndex(name, indexes, txMode, storeTx)
    IN  /\ indexes' = IF r = "ok" THEN indexes \ {name} ELSE indexes
        /\ IF r = "ok"
           THEN /\ schemaCall' = SchemaCall("tryDeleteIndex", name, r, "true")
                /\ opThrew' = "none"
           ELSE IF IsNotFound(r)
           THEN /\ schemaCall' = SchemaCall("tryDeleteIndex", name, r, "false")
                /\ opThrew' = "none"
           ELSE /\ schemaCall' = SchemaCall("tryDeleteIndex", name, r, "none")
                /\ opThrew' = r
        /\ UNCHANGED <<txMode, objects, durable, storeTx, call, request, dbp, opPromise, lastPut>>
        /\ UNCHANGED <<cursorVars, txVars, openVars>>

SchemaInit ==
    /\ source = "store"
    /\ data = {}
    /\ CursorIdle
    /\ TxIdle
    /\ OpenIdle
    /\ StoreIdle
    /\ indexes \in SUBSET IndexNames
    /\ txMode \in {"readwrite", "versionchange"}
    /\ schemaCall = NoSchemaCall

SchemaNext ==
    \/ \E name \in IndexNames : CreateIndex(name)
    \/ \E name \in IndexNames : DeleteIndex(name)
    \/ \E name \in IndexNames : TryDeleteIndex(name)
    \/ GoesIdle
    \/ Committed

SchemaSpec == SchemaInit /\ [][SchemaNext]_vars

\* ------------------------- the earlier iteration API (PromisedDb.ts)
\* ObjectStore.iterate / iterateKeys and Index.iterateObjects /
\* iterateIndexKeys: the same body around openCursor or openKeyCursor.
LegacyModes(src) ==
    IF src = "store" THEN {"iterate", "iterateKeys"} ELSE {"iterateObjects", "iterateIndexKeys"}

\* The call up to the return of the promise; an exception of openCursor
\* inside the promise executor rejects the promise.
Iterate(m, direction) ==
    /\ phase = "constructed"
    /\ m \in LegacyModes(source)
    /\ mode' = m
    /\ options' = [NoOptions EXCEPT !.direction = direction]
    /\ phase' = "running"
    /\ IF txActive
       THEN /\ promise' = Pending
            /\ rq' = [state |-> "pending", target |-> 1]
       ELSE /\ promise' = Settle(Pending, "rejected", "TransactionInactiveError")
            /\ rq' = rq
    /\ UNCHANGED <<source, data, offsetNotApplied, fromIndexNotApplied, curCount, cursor,
                   cb, delivered, hostCalls, uncaught, stopAt, txActive, hostLog, capRq>>
    /\ UNCHANGED <<txVars, openVars, storeVars, schemaVars>>

\* rq.onsuccess
IterateOnSuccess ==
    /\ phase = "running"
    /\ rq.state = "pending"
    /\ LET P == Positions(data, options.direction)
           i == IF rq.target > Len(P) THEN Len(P) + 1 ELSE rq.target
       IN  /\ cursor' = i
           /\ rq' = [state |-> "done", target |-> i]
           /\ IF i <= Len(P)
              THEN /\ cb' = "pending"
                   /\ delivered' = Append(delivered, P[i])
                   /\ UNCHANGED promise
              ELSE /\ promise' = Settle(promise, "resolved", "undefined")
                   /\ UNCHANGED <<cb, delivered>>
    /\ UNCHANGED <<source, data, mode, options, phase, offsetNotApplied,
                   fromIndexNotApplied, curCount, hostCalls, uncaught, stopAt, txActive,
                   hostLog, capRq>>
    /\ UNCHANGED <<txVars, openVars, storeVars, schemaVars>>

\* rq.onerror
IterateOnError ==
    /\ phase = "running"
    /\ rq.state = "pending"
    /\ promise' = Settle(promise, "rejected", "HostError")
    /\ rq' = [state |-> "error", target |-> rq.target]
    /\ UNCHANGED <<source, data, mode, options, phase, offsetNotApplied,
                   fromIndexNotApplied, curCount, cursor, cb, delivered, hostCalls,
                   uncaught, stopAt, txActive, hostLog, capRq>>
    /\ UNCHANGED <<txVars, openVars, storeVars, schemaVars>>

\* Variant that never stops.
Skips_Never(skip) == FALSE

\* if (skip)
Skips(skip) == skip = "true"

\* The action fulfils with skip; .then((skip) => ...) runs, and .catch(reject)
\* behind it receives an exception of cursor.continue().
IterateActionFulfils(skip) ==
    /\ phase = "running"
    /\ cb = "pending"
    /\ cb' = "fulfilled"
    /\ stopAt' = IF skip = "true" /\ stopAt = 0 THEN Len(delivered) ELSE stopAt
    /\ LET r == CursorContinue(Positions(data, options.direction), cursor, txActive)
       IN  IF Skips(skip)
           THEN /\ promise' = Settle(promise, "resolved", "undefined")
                /\ UNCHANGED <<rq, hostCalls, hostLog>>
           ELSE /\ hostCalls' = hostCalls + 1
                /\ hostLog' = Append(hostLog, HostCall("continue", <<>>))
                /\ IF r.ok
                   THEN /\ rq' = [state |-> "pending", target |-> r.target]
                        /\ UNCHANGED promise
                   ELSE /\ promise' = Settle(promise, "rejected", r.error)
                        /\ UNCHANGED rq
    /\ UNCHANGED <<source, data, mode, options, phase, offsetNotApplied,
                   fromIndexNotApplied, curCount, cursor, delivered, uncaught, txActive, capRq>>
    /\ UNCHANGED <<txVars, openVars, storeVars, schemaVars>>

\* Variant without the catch: the rejection of the action is lost.
IterateCatch_Missing(e) == promise' = promise

\* .catch(reject)
IterateCatch(e) == promise' = Settle(promise, "rejected", e)

\* The action rejects: .catch(reject) rejects the run with its error.
IterateActionRejects ==
    /\ phase = "running"
    /\ cb = "pending"
    /\ cb' = "rejected"
    /\ IterateCatch("CallbackError")
    /\ UNCHANGED <<source, data, mode, options, phase, offsetNotApplied,
                   fromIndexNotApplied, curCount, rq, cursor, delivered, hostCalls,
                   uncaught, stopAt, txActive, hostLog, capRq>>
    /\ UNCHANGED <<txVars, openVars, storeVars, schemaVars>>

IterateNext ==
    \/ \E m \in LegacyModes("store") \cup LegacyModes("index"), direction \in {"next", "prev"} :
          Iterate(m, direction)
    \/ IterateOnSuccess
    \/ IterateOnError
    \/ \E skip \in {"true", "false", "undefined"} : IterateActionFulfils(skip)
    \/ IterateActionRejects
    \/ AutoCommit

IterateSpec == CursorInit /\ [][IterateNext]_vars

\* ------------------------------ update() / delete() of value iteration
\* Variant in which the capability hands back something a callback cannot
\* wait for.
CapabilityPromise_NotAwaitable(st) == "resolved"

\* update: (newValue) => dbPromise(cursor.update(newValue)) and
\* delete: () => dbPromise(cursor.delete()): the state of the promise, given
\* the state of the request.
CapabilityPromise(st) ==
    CASE st = "pending" -> "pending"
      [] st = "success" -> "resolved"
      [] st = "error" -> "rejected"

\* The callback calls update() or delete() of the position it was given and
\* awaits the promise.
CallbackAwaits(kind) ==
    /\ phase = "running"
    /\ mode = "values"
    /\ cb = "pending"
    /\ capRq.state = "none"
    /\ txActive
    /\ capRq' = [state |-> "pending", kind |-> kind]
    /\ cb' = "awaiting"
    /\ UNCHANGED <<source, data, mode, options, phase, promise, offsetNotApplied,
                   fromIndexNotApplied, curCount, rq, cursor, delivered, hostCalls,
                   uncaught, stopAt, txActive, hostLog>>
    /\ UNCHANGED <<txVars, openVars, storeVars, schemaVars>>

\* The host carries the update or delete out.
HostCapabilitySuccess ==
    /\ capRq.state = "pending"
    /\ capRq' = [capRq EXCEPT !.state = "success"]
    /\ UNCHANGED <<source, data, mode, options, phase, promise, offsetNotApplied,
                   fromIndexNotApplied, curCount, rq, cursor, cb, delivered, hostCalls,
                   uncaught, stopAt, txActive, hostLog>>
    /\ UNCHANGED <<txVars, openVars, storeVars, schemaVars>>

\* The host refuses the update or delete; nothing prevents the default of
\* the error event, so the transaction aborts.
HostCapabilityError ==
    /\ capRq.state = "pending"
    /\ capRq' = [capRq EXCEPT !.state = "error"]
    /\ txActive' = FALSE
    /\ UNCHANGED <<source, data, mode, options, phase, promise, offsetNotApplied,
                   fromIndexNotApplied, curCount, rq, cursor, cb, delivered, hostCalls,
                   uncaught, stopAt, hostLog>>
    /\ UNCHANGED <<txVars, openVars, storeVars, schemaVars>>

\* The awaited promise has settled: the callback goes on.
CallbackResumes ==
    /\ cb = "awaiting"
    /\ CapabilityPromise(capRq.state) # "pending"
    /\ cb' = "pending"
    /\ UNCHANGED <<source, data, mode, options, phase, promise, offsetNotApplied,
                   fromIndexNotApplied, curCount, rq, cursor, delivered, hostCalls,
                   uncaught, stopAt, txActive, hostLog, capRq>>
    /\ UNCHANGED <<txVars, openVars, storeVars, schemaVars>>

ValueRunOptions ==
    {[NoOptions EXCEPT !.direction = direction, !.limit = limit] :
        direction \in {"next", "prev"}, limit \in {None, Some(1)}}

ValuesNext ==
    \/ \E opts \in ValueRunOptions : IterateValues(opts)
    \/ OnSuccess
    \/ OnError
    \/ \E u \in {"true", "undefined"} : CallbackFulfils(u)
    \/ CallbackRejects
    \/ AutoCommit
    \/ \E kind \in {"update", "delete"} : CallbackAwaits(kind)
    \/ HostCapabilitySuccess
    \/ HostCapabilityError
    \/ CallbackResumes

ValuesSpec == CursorInit /\ [][ValuesNext]_vars

\* ================================================================ claims
\* Nothing of a cursor run is in flight: no pending request, no pending callback.
CursorQuiescent == phase = "running" /\ rq.state # "pending" /\ cb # "pending"

\* The host transaction has ended and the action has settled.
TxQuiescent == hostTx \in {"committed", "aborted"} /\ action \in {"fulfilled", "rejected"}

\* C1: with limit = L over N positions and no early break the user callback
\* is invoked exactly min(L, N) times over the whole execution.
C1_LimitBoundsDeliveries ==
    (phase = "running" /\ Truthy(options.limit) /\ stopAt = 0)
        => /\ Len(delivered) <= Min({The(options.limit), Cardinality(data)})
           /\ (CursorQuiescent /\ promise.state = "resolved" /\ uncaught = {}
               /\ options.from.key = None /\ options.offset = None)
                  => Len(delivered) = Min({The(options.limit), Cardinality(data)})

\* C2: once the run's promise has resolved (Done), the run issues no further
\* cursor host call (continue, advance, continuePrimaryKey).
C2_NoHostCallAfterDone == [][promise.state = "resolved" => hostCalls' = hostCalls]_vars

\* C3: when the user's callback returns true at some position, the run
\* resolves after that position and no later position is delivered.
C3_StopEndsRun ==
    stopAt > 0 => (promise.state = "resolved" /\ Len(delivered) = stopAt)

\* C4: every cursor run settles its promise once the host has answered every
\* request and the callback has settled, in particular when the callback
\* rejects and when the host refuses the advance issued after the callback
\* because the transaction has gone inactive.
C4_RunSettles ==
    (CursorQuiescent /\ uncaught \subseteq {"CallbackError", "TransactionInactiveError"})
        => promise.state \in {"resolved", "rejected"}

\* C5: transaction() resolves with v only if the action fulfilled with v
\* before the complete event fired.
C5_ResolvesWithActionResult ==
    txPromise.state = "resolved"
        => /\ action = "fulfilled"
           /\ actionAtComplete = "fulfilled"
           /\ txPromise.value = actionOut

C5_Witness ==
    txPromise.state = "resolved" /\ txPromise.value = "r1" /\ hostTx = "committed"

\* C6: if the complete event fires while the action is still pending,
\* transaction() is rejected with the distinguished error, and stays so
\* whatever the action does later.
C6_EarlyCompleteRejects ==
    actionAtComplete \in {"running", "waiting"}
        => txPromise = [state |-> "rejected", value |-> MismatchError]

C6_Witness ==
    /\ actionAtComplete = "waiting"
    /\ action = "fulfilled"
    /\ txPromise = [state |-> "rejected", value |-> MismatchError]

\* C7: if the action rejects with e, the library calls abort() and then
\* rejects the transaction() promise with e.
C7_RejectAbortsThenRejects ==
    action = "rejected"
        => /\ trace = <<"abort", "reject">>
           /\ txPromise = [state |-> "rejected", value |-> actionOut]

\* C8 (as stated): whenever the action puts and then throws, the transaction
\* is aborted and the put value is absent from the store, also when the
\* action waited on something else between the put and the throw.
C8_PutAbsentAfterThrow ==
    (action = "rejected" /\ didPut # {})
        => (hostTx = "aborted" /\ \A k \in didPut : store[k] # "new")

\* C8 (amended): whenever the action puts and then throws before the host has
\* started committing the transaction, the transaction is aborted and the
\* put value is absent from the store.
C8_PutAbsentAfterThrowBeforeCommit ==
    (action = "rejected" /\ didPut # {} /\ hostTxAtThrow \notin {"committing", "committed"})
        => (hostTx = "aborted" /\ \A k \in didPut : store[k] # "new")

C8_Witness ==
    /\ action = "rejected"
    /\ hostTxAtThrow = "active"
    /\ \E k \in didPut : store[k] = "old"
    /\ hostTx = "aborted"

\* C9: every promise of transaction() settles whichever way the host
\* transaction ends, also when it ends in abort and the action fulfils.
C9_TransactionSettles == TxQuiescent => txPromise.state \in {"resolved", "rejected"}

\* C10: with offset = k (1 <= k < N) and no from, exactly k positions are
\* skipped: the first callback receives the (k+1)-th position.
C10_OffsetSkipsK ==
    (phase = "running" /\ Truthy(options.offset) /\ options.from.key = None
     /\ The(options.offset) < Cardinality(data) /\ Len(delivered) >= 1)
        => delivered[1] = Positions(data, options.direction)[The(options.offset) + 1]

\* C11: a run called with offset or limit below 1 (0 included) fails
\* synchronously before any host call: no cursor is opened, no callback runs.
C11_NonPositiveFailsFast ==
    (mode # "none"
     /\ \/ (options.offset # None /\ The(options.offset) < 1)
        \/ (options.limit # None /\ The(options.limit) < 1))
        => (phase = "threw" /\ rq.state = "none" /\ delivered = <<>>)

\* C12: a forward run with from.key = k and no primaryKey over a non-empty
\* range does not fail, and the first position delivered is the smallest
\* key >= k, for every k (the first key of the range included).
C12_FromSeekInclusive ==
    (phase = "running" /\ options.direction = "next" /\ options.from.key # None
     /\ options.from.primaryKey = None /\ options.offset = None /\ data # {})
        => /\ "DataError" \notin uncaught
           /\ Len(delivered) >= 1
                => /\ delivered[1].key >= The(options.from.key)
                   /\ \A r \in data : r.key >= The(options.from.key)
                                        => ~Less(r, delivered[1])

\* A run with no option other than the direction.
NoOptionRun ==
    /\ phase = "running"
    /\ options.from = [key |-> None, primaryKey |-> None]
    /\ options.limit = None
    /\ options.offset = None

\* a comes before b in the order of the direction
Before(a, b, direction) == IF direction = "next" THEN Less(a, b) ELSE Less(b, a)

\* C13: with no option other than the direction, the positions are delivered
\* in key order of the direction, none twice and none skipped, and the run
\* resolves only once every position has been delivered and the cursor is
\* exhausted.
C13_FullOrderedDelivery ==
    (NoOptionRun /\ stopAt = 0)
        => /\ \A i \in 1..Len(delivered) : delivered[i] \in data
           /\ \A i, j \in 1..Len(delivered) :
                 i < j => Before(delivered[i], delivered[j], options.direction)
           /\ \A i \in 1..Len(delivered) : \A r \in data :
                 Before(r, delivered[i], options.direction)
                    => \E j \in 1..(i - 1) : delivered[j] = r
           /\ promise.state = "resolved"
                => /\ {delivered[i] : i \in 1..Len(delivered)} = data
                   /\ cursor = Cardinality(data) + 1

C13_Witness ==
    /\ NoOptionRun
    /\ stopAt = 0
    /\ options.direction = "prev"
    /\ Cardinality(data) >= 2
    /\ Len(delivered) = Cardinality(data)
    /\ promise.state = "resolved"

\* C16: when the cursor request reports an error, the run's promise is
\* rejected with that error and no callback is left running.
C16_ErrorRejectsRun ==
    rq.state = "error"
        => (promise = [state |-> "rejected", value |-> "HostError"] /\ cb # "pending")

\* The entries of a sequence of records whose field f is v.
Calls(t) == SelectSeq(t, LAMBDA x : x.what = "upgrader")

Fired(t, type) == SelectSeq(t, LAMBDA x : x.type = type)

\* C14: open() invokes the upgrader if and only if the host fires
\* upgradeneeded, exactly once and with the host's (oldVersion, newVersion),
\* and before the open promise resolves.
C14_UpgraderFollowsUpgradeNeeded ==
    /\ Len(Calls(openTrace)) = Len(Fired(hostEvents, "upgradeneeded"))
    /\ Len(Calls(openTrace)) <= 1
    /\ \A i \in 1..Len(Calls(openTrace)) :
          /\ Calls(openTrace)[i].old = Fired(hostEvents, "upgradeneeded")[i].old
          /\ Calls(openTrace)[i].new = Fired(hostEvents, "upgradeneeded")[i].new
    /\ \A i, j \in 1..Len(openTrace) :
          (openTrace[i].what = "resolve" /\ openTrace[j].what = "upgrader") => j < i

C14_Witness ==
    /\ openPromise.state = "resolved"
    /\ openTrace = <<Did("upgrader", 1, 2), Did("resolve", 1, 2)>>

\* C15: when the host fires blocked, open() is rejected with
\* UpgradeAttemptBlockedError, and stays so.
C15_BlockedRejects ==
    Len(Fired(hostEvents, "blocked")) > 0
        => openPromise = [state |-> "rejected", value |-> "UpgradeAttemptBlockedError"]

C15_Witness ==
    /\ Len(Fired(hostEvents, "blocked")) > 0
    /\ openRq.state = "done"
    /\ openPromise = [state |-> "rejected", value |-> "UpgradeAttemptBlockedError"]

\* C17: dbPromise settles exactly once, with the request's result when the
\* host fires success and with the request's error when it fires error, not
\* before the host has signalled; it installs one success and one error
\* callback on the request.
C17_DbPromiseMirrorsRequest ==
    /\ request.state = "pending" => dbp.state = "pending"
    /\ request.state = "success" => dbp = [state |-> "resolved", value |-> request.result]
    /\ request.state = "error" => dbp = [state |-> "rejected", value |-> request.error]
    /\ request.state # "none"
         => Cardinality(request.onsuccess) = 1 /\ Cardinality(request.onerror) = 1

C17_Witness ==
    /\ request.state = "success"
    /\ dbp.state = "resolved"
    /\ dbp.value.kind = "values"
    /\ Len(dbp.value.vals) = 2

Answered(op) == request.state = "success" /\ call.op = op

\* C18: on a key the store or index does not hold, get resolves with
\* undefined and requireGet rejects with NoResultError; on a key it holds
\* both resolve with the stored value.
C18_AbsenceContract ==
    LET ks == Matching(call.handle, objects, call.query)
        stored == [state |-> "resolved", value |-> Res("value", <<objects[ks[1]]>>, <<>>)]
    IN  /\ (Answered("get") /\ ks = <<>>) => opPromise = [state |-> "resolved", value |-> Undefined]
        /\ (Answered("requireGet") /\ ks = <<>>)
              => opPromise = [state |-> "rejected", value |-> Err("NoResultError")]
        /\ ((Answered("get") \/ Answered("requireGet")) /\ ks # <<>>) => opPromise = stored

C18_Witness ==
    /\ Answered("requireGet")
    /\ call.handle = "index"
    /\ objects # <<>>
    /\ opPromise = [state |-> "rejected", value |-> Err("NoResultError")]

\* C19: Index.getAllPrimaryKeys resolves with the primary keys of the
\* records the query matches, in the order of the index, and not with the
\* stored values.
C19_IndexGetAllPrimaryKeys ==
    (Answered("getAllPrimaryKeys") /\ call.handle = "index")
        => /\ opPromise.state = "resolved"
           /\ opPromise.value.keys = Matching("index", objects, call.query)
           /\ opPromise.value.vals = <<>>

RequestOps == (StoreOps \cup IndexOps) \ {"index"}

RefusedInactive ==
    /\ request.state = "none"
    /\ \/ opThrew = "TransactionInactiveError"
       \/ opPromise = [state |-> "rejected", value |-> Err("TransactionInactiveError")]

\* C20 as stated: once the host has auto-committed the transaction, every
\* operation of a store or index handle fails with TransactionInactiveError
\* and none changes the store.
C20_EveryOperationRefused ==
    /\ (call.tx \in {"committing", "finished"}) => RefusedInactive
    /\ storeTx # "active" => objects = durable

\* C20 amended: once the host has auto-committed the transaction, every
\* operation that issues a request (all but index()) fails with
\* TransactionInactiveError, and none changes the store.
C20_RequestOperationsRefused ==
    /\ (call.tx \in {"committing", "finished"} /\ call.op \in RequestOps) => RefusedInactive
    /\ storeTx # "active" => objects = durable

C20_Witness ==
    /\ call.tx = "committing"
    /\ call.op = "put"
    /\ opThrew = "TransactionInactiveError"
    /\ objects = durable

\* C21: tryDeleteIndex returns true when the host deletes the index, false
\* when the host throws NotFoundError, and throws every other exception of
\* the host unchanged.
C21_TryDeleteIndex ==
    schemaCall.op = "tryDeleteIndex"
        => /\ schemaCall.host = "ok"
                => schemaCall.returned = "true" /\ opThrew = "none"
           /\ schemaCall.host = "NotFoundError"
                => schemaCall.returned = "false" /\ opThrew = "none"
           /\ schemaCall.host \notin {"ok", "NotFoundError"}
                => schemaCall.returned = "none" /\ opThrew = schemaCall.host

C21_Witness ==
    /\ schemaCall.op = "tryDeleteIndex"
    /\ schemaCall.host = "TransactionInactiveError"
    /\ opThrew = "TransactionInactiveError"
    /\ txMode = "versionchange"

\* C22: in an active transaction put(v) under a key resolves, also when the
\* store already holds a value under that key, and a get of that key after
\* it resolves with v.
C22_PutGetRoundTrip ==
    /\ (call.handle = "store" /\ call.op = "put" /\ request.state \notin {"none", "pending"})
          => /\ request.state = "success"
             /\ opPromise = [state |-> "resolved", value |-> Res("key", <<>>, <<The(call.query)>>)]
    /\ (Answered("get") /\ call.handle = "store" /\ lastPut # None
        /\ The(lastPut).key = The(call.query))
          => opPromise = [state |-> "resolved",
                          value |-> Res("value", <<The(lastPut).value>>, <<>>)]

C22_Witness ==
    /\ Answered("get")
    /\ call.handle = "store"
    /\ lastPut # None
    /\ The(lastPut).key = The(call.query)
    /\ The(call.query) \in DOMAIN durable
    /\ durable[The(call.query)] # The(lastPut).value
    /\ opPromise.value.vals = <<The(lastPut).value>>

\* The callbacks of the run that fulfilled without asking to stop.
FulfilledFalsy ==
    IF delivered = <<>> THEN 0
    ELSE IF cb = "fulfilled" /\ stopAt = 0 THEN Len(delivered)
    ELSE Len(delivered) - 1

\* C23: in the earlier iteration API, when the action resolves with true the
\* run resolves and continue() is not called again, so no later position is
\* delivered; each fulfilment with a falsy value issues exactly one continue().
C23_LegacyStop ==
    /\ hostCalls = FulfilledFalsy
    /\ stopAt # 0 => /\ promise = [state |-> "resolved", value |-> "undefined"]
                     /\ Len(delivered) = stopAt
                     /\ rq.state # "pending"

C23_Witness ==
    /\ stopAt = 2
    /\ Cardinality(data) = 3
    /\ hostCalls = 1
    /\ promise.state = "resolved"

\* C24: when the count of deliveries reaches the limit, the run is resolved
\* by the handler that started the callback of that position, without
\* waiting for the callback: the run is resolved while it is still pending.
C24_LimitResolvesAtDelivery ==
    (phase = "running" /\ Truthy(options.limit) /\ curCount >= The(options.limit))
        => promise = [state |-> "resolved", value |-> "undefined"]

C24_Witness ==
    /\ phase = "running"
    /\ options.limit = Some(2)
    /\ curCount = 2
    /\ Len(delivered) = 2
    /\ cb = "pending"
    /\ promise.state = "resolved"

IsSeek(c) == c.call = "continuePrimaryKey" \/ (c.call = "continue" /\ c.args # <<>>)

\* C25: with from.key and offset both set, the first cursor-ready event
\* issues the seek and the second the offset skip; each issues one host call,
\* starts no callback and leaves curCount unchanged.
C25_SeekThenOffset ==
    (phase = "running" /\ options.from.key # None
     /\ options.offset # None /\ The(options.offset) >= 1)
        => /\ Len(hostLog) >= 1 => IsSeek(hostLog[1])
           /\ Len(hostLog) >= 2 => hostLog[2] = HostCall("advance", <<The(options.offset) - 1>>)
           /\ delivered # <<>> => Len(hostLog) >= 2
           /\ delivered = <<>> => curCount = 0 /\ cb = "none"

\* C26: for every offset k >= 1 and no from, the first cursor-ready event
\* issues one advance(k - 1), the host accepts it, and the position it
\* reaches is the first one delivered.
C26_OffsetAdvanceAccepted ==
    (phase = "running" /\ options.from.key = None /\ options.offset # None
     /\ The(options.offset) >= 1 /\ data # {} /\ cursor >= 1)
        => /\ hostLog # <<>>
           /\ hostLog[1] = HostCall("advance", <<The(options.offset) - 1>>)
           /\ "TypeError" \notin uncaught
           /\ delivered # <<>>
                => delivered[1] = Positions(data, options.direction)[The(options.offset)]

\* C30: the seek of the run is continuePrimaryKey(from.key, from.primaryKey)
\* whenever from.primaryKey is provided, whatever its value, and
\* continue(from.key) only when it is not.
C30_SeekUsesPrimaryKey ==
    (phase = "running" /\ Truthy(options.from.key) /\ hostLog # <<>>)
        => hostLog[1] = IF options.from.primaryKey # None
                        THEN HostCall("continuePrimaryKey",
                                 <<The(options.from.key), The(options.from.primaryKey)>>)
                        ELSE HostCall("continue", <<The(options.from.key)>>)

\* C28: a run has at most one callback in flight and at most one pending
\* cursor request: no request is pending while a callback runs, and once a
\* position was delivered a request is pending only after the callback of
\* that position has fulfilled.
C28_OneAtATime ==
    (phase = "running")
        => /\ ~(cb = "pending" /\ rq.state = "pending")
           /\ (rq.state = "pending" /\ delivered # <<>>) => cb = "fulfilled"
           /\ cb = "pending" => (delivered # <<>> /\ cursor = rq.target /\ rq.state = "done")

C28_Witness ==
    /\ phase = "running"
    /\ Len(delivered) = 2
    /\ cb = "fulfilled"
    /\ rq.state = "pending"

\* C27: in value iteration, while an update or delete the callback awaits is
\* pending, the callback is suspended and the run has no cursor request
\* pending: the next advance is issued after it has completed.
C27_CapabilityBeforeAdvance ==
    capRq.state = "pending" => (cb = "awaiting" /\ rq.state = "done" /\ hostCalls = Len(delivered) - 1)

C27_Witness ==
    /\ capRq = [state |-> "success", kind |-> "delete"]
    /\ cb = "fulfilled"
    /\ rq.state = "pending"
    /\ Len(delivered) = 2

OtherMode(m) == IF m = "keys" THEN "values" ELSE "keys"

NotBefore(r, key, direction) == IF direction = "next" THEN r.key >= key ELSE r.key <= key

\* C31: whenever from.key is provided, the key 0 included, the first
\* cursor-ready event that carries a cursor issues a seek, and no position
\* before from.key is delivered.
C31_SeekForEveryKey ==
    (phase = "running" /\ options.from.key # None /\ data # {} /\ cursor >= 1)
        => /\ hostLog # <<>>
           /\ IsSeek(hostLog[1])
           /\ \A i \in 1..Len(delivered) :
                 NotBefore(delivered[i], The(options.from.key), options.direction)

NegativeOption ==
    \/ options.offset # None /\ The(options.offset) < 0
    \/ options.limit # None /\ The(options.limit) < 0

\* C32: with a negative offset or a negative limit the call itself throws:
\* no promise is returned and the cursor request is never opened.
C32_NegativeThrowsFromCall ==
    (mode # "none" /\ NegativeOption)
        => /\ phase = "threw"
           /\ uncaught \cap {"offset must be greater than 0", "limit must be greater than 0"} # {}
           /\ promise = NoPromise
           /\ rq.state = "none"
           /\ delivered = <<>> /\ hostLog = <<>>

C32_Witness ==
    /\ mode = "values"
    /\ options.offset = None
    /\ options.limit = Some(-1)
    /\ phase = "threw"
    /\ uncaught = {"limit must be greater than 0"}

\* C33: a run over an empty range opens the cursor and nothing else: it
\* issues no seek and no advance and starts no callback whatever the options
\* are, and resolves when the host answers the open request with no cursor.
C33_EmptyRange ==
    (phase = "running" /\ data = {})
        => /\ hostLog = <<>> /\ hostCalls = 0
           /\ delivered = <<>> /\ cb = "none" /\ curCount = 0
           /\ uncaught = {}
           /\ rq.state = "done" => promise = [state |-> "resolved", value |-> "undefined"]

C33_Witness ==
    /\ phase = "running"
    /\ data = {}
    /\ options.from.key = Some(2)
    /\ options.offset = Some(2)
    /\ options.limit = Some(1)
    /\ rq.state = "done"
    /\ promise.state = "resolved"

\* C34: transaction() resolves only at the complete event: fulfilment of
\* the action only records the result, and a resolved promise means the host
\* has committed.
C34_ResolvesOnlyAtComplete ==
    /\ txPromise.state = "resolved" => (hostTx = "committed" /\ actionCompleted)
    /\ (action = "fulfilled" /\ hostTx \in {"active", "committing"})
          => (txPromise.state = "pending" /\ actionCompleted /\ result = actionOut)

C34_Witness ==
    /\ action = "fulfilled"
    /\ actionCompleted
    /\ result = "r2"
    /\ hostTx = "committing"
    /\ txPromise.state = "pending"

\* C35: the catch handler calls abort() only on a live transaction, never
\* on one that has completed or aborted.
C35_AbortOnlyWhileLive ==
    action = "rejected" => hostTxAtThrow \notin {"committed", "aborted"}

\* C36: once open has rejected, the upgrader is not invoked afterwards for
\* that request and the promise stays rejected.
C36_NoUpgraderAfterReject ==
    /\ \A i \in 1..Len(openTrace) : \A j \in (i + 1)..Len(openTrace) :
          openTrace[i].what = "reject" => openTrace[j].what # "upgrader"
    /\ (\E i \in 1..Len(openTrace) : openTrace[i].what = "reject")
          => openPromise.state = "rejected"

\* C37: in the earlier iteration API, when the action rejects with e the
\* run rejects with e and no cursor.continue() is issued for that record or
\* after it.
C37_ActionRejectionEndsRun ==
    (mode \in LegacyModes(source) /\ cb = "rejected")
        => /\ promise = [state |-> "rejected", value |-> "CallbackError"]
           /\ rq.state = "done"
           /\ hostCalls = Len(delivered) - 1
           /\ Len(hostLog) = Len(delivered) - 1

C37_Witness ==
    /\ mode = "iterateIndexKeys"
    /\ cb = "rejected"
    /\ Len(delivered) = 2
    /\ hostCalls = 1
    /\ promise = [state |-> "rejected", value |-> "CallbackError"]

====
